---- MODULE Spec2Model ----
(***************************************************************************)
(* Model of the discord_finder crate (src/src/lib.rs): google::search,     *)
(* intermediary::resolve, discord::get_invite_code and discord::Invite.    *)
(*                                                                         *)
(* A Rust &str is modelled as the sequence of its UTF-8 bytes.  An ASCII   *)
(* character is one element; the two-byte character U+00E9 is the lead     *)
(* byte "C3" followed by the continuation byte "A9".  Byte offsets, and    *)
(* the char-boundary test that slicing performs, are therefore explicit.   *)
(***************************************************************************)
EXTENDS Integers, Sequences, FiniteSets, TLC

VARIABLES
    url_pc, url_page, url_checks, url_out,                 \* google::get_full_url
    g_pc, g_page, g_req_url, g_body0, g_body, g_rep, g_result,
                                                           \* google::search
    r_pc, r_body0, r_body, r_rep, r_result,                \* intermediary::resolve
    f_pc, f_url, f_code, f_requests, f_req_url, f_resp, f_decoded, f_result
                                                           \* discord::Invite::fetch

url_vars == <<url_pc, url_page, url_checks, url_out>>
g_vars   == <<g_pc, g_page, g_req_url, g_body0, g_body, g_rep, g_result>>
r_vars   == <<r_pc, r_body0, r_body, r_rep, r_result>>
f_vars   == <<f_pc, f_url, f_code, f_requests, f_req_url, f_resp, f_decoded, f_result>>
vars     == <<url_vars, g_vars, r_vars, f_vars>>

----------------------------------------------------------------------------
(* Bounds of the model. *)

\* longest tail appended to a base when invite URLs are enumerated
MaxTail == 2
\* number of segments a response body is assembled from
MaxSegs == 4
\* captures after which the search loop of the model is cut off
MaxRep == 4
\* largest page index enumerated besides those around the overflow
MaxPage == 60

----------------------------------------------------------------------------
(* String literals of the source, as byte sequences. *)

CanonicalPrefix == <<"h", "t", "t", "p", "s", ":", "/", "/", "d", "i", "s", "c", "o", "r", "d", ".", "c", "o", "m", "/", "i", "n", "v", "i", "t", "e", "/">>
ShortPrefix == <<"h", "t", "t", "p", "s", ":", "/", "/", "d", "i", "s", "c", "o", "r", "d", ".", "g", "g", "/">>
Needle == <<"d", "i", "s", "c", "o", "r", "d", ".", "g", "g", "/">>
StartDelim == <<"\"", "r", "\"", ">", "<", "a", " ", "h", "r", "e", "f", "=", "\"">>
EndDelim == <<"\"", " ", "o", "n", "m", "o", "u", "s", "e", "d", "o", "w", "n", "=", "\"", "r", "e", "t", "u", "r", "n", " ", "r", "w", "t", "(">>
ApiPrefix == <<"h", "t", "t", "p", "s", ":", "/", "/", "d", "i", "s", "c", "o", "r", "d", ".", "c", "o", "m", "/", "a", "p", "i", "/", "v", "6", "/", "i", "n", "v", "i", "t", "e", "s", "/">>
ApiSuffix == <<"?", "w", "i", "t", "h", "_", "c", "o", "u", "n", "t", "s", "=", "t", "r", "u", "e">>
SearchPrefix == <<"h", "t", "t", "p", "s", ":", "/", "/", "w", "w", "w", ".", "g", "o", "o", "g", "l", "e", ".", "c", "o", "m", "/", "s", "e", "a", "r", "c", "h", "?", "q", "=", "\"", "d", "i", "s", "c", "o", "r", "d", ".", "g", "g", "\"", "&", "t", "b", "s", "=", "q", "d", "r", ":", "h", "&", "f", "i", "l", "t", "e", "r", "=", "0", "&", "s", "t", "a", "r", "t", "=">>

\* byte offsets used by get_invite_code
CanonicalLen == 27
ShortLen == 19
\* token length accepted by intermediary::resolve
TokenLen == 7
\* page size of the search backend
PageSize == 10
\* width of usize (a 16-bit target)
UsizeBits == 16
UsizeMax == 2 ^ UsizeBits - 1

----------------------------------------------------------------------------
(* Bytes and characters. *)

Digits == <<"0", "1", "2", "3", "4", "5", "6", "7", "8", "9">>
Lower == {"a", "b", "c", "d", "e", "f", "g", "h", "i", "j", "k", "l", "m",
          "n", "o", "p", "q", "r", "s", "t", "u", "v", "w", "x", "y", "z"}
Upper == {"A", "B", "C", "D", "E", "F", "G", "H", "I", "J", "K", "L", "M",
          "N", "O", "P", "Q", "R", "S", "T", "U", "V", "W", "X", "Y", "Z"}
DigitSet == {Digits[i] : i \in 1..10}

\* char::is_ascii_alphanumeric
is_ascii_alphanumeric(c) == c \in Lower \cup Upper \cup DigitSet

\* UTF-8 continuation bytes (10xxxxxx) and lead bytes of two-byte characters
ContBytes == {"A9"}
LeadBytes == {"C3"}
EAcute == <<"C3", "A9">>

\* str::is_char_boundary, for a byte offset i
is_char_boundary(s, i) ==
    \/ i = 0
    \/ i = Len(s)
    \/ i < Len(s) /\ s[i + 1] \notin ContBytes

\* Option<T> and Result<T, E> values: a tag and a payload
None == [tag |-> "None", v |-> <<>>]
Some(x) == [tag |-> "Some", v |-> x]
Panic == [tag |-> "Panic", v |-> <<>>]
Ok(x) == [tag |-> "Ok", v |-> x]
Err(k) == [tag |-> "Err", v |-> k]
NoValue == [tag |-> "Pending", v |-> <<>>]

\* str::find: the byte offset of the first occurrence of pat, or -1
Occurs(text, pat, i) ==
    /\ i + Len(pat) <= Len(text)
    /\ SubSeq(text, i + 1, i + Len(pat)) = pat

find(text, pat) ==
    IF \E i \in 0..Len(text) : Occurs(text, pat, i)
    THEN CHOOSE i \in 0..Len(text) :
            /\ Occurs(text, pat, i)
            /\ \A j \in 0..(i - 1) : ~Occurs(text, pat, j)
    ELSE -1

\* string_tools::get_all_after: the text after the first occurrence of
\* begin, the empty string when begin does not occur
get_all_after(text, begin) ==
    IF find(text, begin) >= 0
    THEN SubSeq(text, find(text, begin) + Len(begin) + 1, Len(text))
    ELSE <<>>

\* string_tools::get_all_between_strict: the text between the first
\* occurrence of begin and the first occurrence of end after it; None when
\* either is missing
get_all_between_strict(text, begin, end) ==
    IF find(text, begin) < 0 THEN None
    ELSE LET rest == SubSeq(text, find(text, begin) + Len(begin) + 1, Len(text))
         IN  IF find(rest, end) < 0 THEN None
             ELSE Some(SubSeq(rest, 1, find(rest, end)))

----------------------------------------------------------------------------
(* discord::get_invite_code and discord::Invite *)

\* &url[0..n]: panics unless n is a char boundary within the string
SliceTo(s, n) ==
    IF n <= Len(s) /\ is_char_boundary(s, n) THEN Some(SubSeq(s, 1, n)) ELSE Panic

SliceFrom(s, n) ==
    IF n <= Len(s) /\ is_char_boundary(s, n)
    THEN Some(SubSeq(s, n + 1, Len(s))) ELSE Panic

get_invite_code(url) ==
    IF Len(url) > CanonicalLen /\ SliceTo(url, CanonicalLen) = Panic THEN Panic
    ELSE IF Len(url) > CanonicalLen /\ SliceTo(url, CanonicalLen).v = CanonicalPrefix
         THEN SliceFrom(url, CanonicalLen)
    ELSE IF Len(url) > ShortLen /\ SliceTo(url, ShortLen) = Panic THEN Panic
    ELSE IF Len(url) > ShortLen /\ SliceTo(url, ShortLen).v = ShortPrefix
         THEN SliceFrom(url, ShortLen)
    ELSE None

\* a get_url that answers in the short form
Invite_get_url_Short(invite) == ShortPrefix \o invite.code

\* Invite::get_url
Invite_get_url(invite) == CanonicalPrefix \o invite.code

\* serde_json::from_str::<Invite>: a response text is a JSON document of
\* which only the members of the Invite schema matter.  code, channel and
\* the two counts are required; guild and inviter are Option fields.
from_str(doc) ==
    IF \/ ~doc.syntax
       \/ doc.code = <<>>
       \/ doc.channel = <<>>
       \/ doc.approximate_member_count = <<>>
       \/ doc.approximate_presence_count = <<>>
    THEN Err("Parse")
    ELSE Ok([code |-> doc.code[1],
             guild |-> doc.guild,
             channel |-> doc.channel[1],
             inviter |-> doc.inviter,
             approximate_member_count |-> doc.approximate_member_count[1],
             approximate_presence_count |-> doc.approximate_presence_count[1]])

\* the request URL built by Invite::fetch
ApiUrl(invite_code) == ApiPrefix \o invite_code \o ApiSuffix

\* a fetch that decodes the body whatever the status
FetchOutcome_IgnoreStatus(resp) ==
    IF ~resp.completed THEN [result |-> Err("Timeout"), decoded |-> FALSE]
    ELSE IF ~resp.utf8
         THEN [result |-> Err("InvalidResponse"), decoded |-> FALSE]
    ELSE IF from_str(resp.doc).tag = "Ok"
         THEN [result |-> Ok(from_str(resp.doc).v), decoded |-> TRUE]
         ELSE [result |-> Err("InvalidResponse"), decoded |-> TRUE]

\* Invite::fetch from the response on: the result and whether the body was
\* handed to the JSON decoder
FetchOutcome(resp) ==
    IF ~resp.completed THEN [result |-> Err("Timeout"), decoded |-> FALSE]
    ELSE IF resp.status # 200
         THEN [result |-> Err("InvalidResponse"), decoded |-> FALSE]
    ELSE IF ~resp.utf8
         THEN [result |-> Err("InvalidResponse"), decoded |-> FALSE]
    ELSE IF from_str(resp.doc).tag = "Ok"
         THEN [result |-> Ok(from_str(resp.doc).v), decoded |-> TRUE]
         ELSE [result |-> Err("InvalidResponse"), decoded |-> TRUE]

----------------------------------------------------------------------------
(* google::get_full_url *)

RECURSIVE Decimal(_)
\* Display for an unsigned integer
Decimal(n) ==
    IF n < 10 THEN <<Digits[n + 1]>>
    ELSE Decimal(n \div 10) \o <<Digits[(n % 10) + 1]>>

\* page * 10 in usize: an overflow panics in a build with overflow checks
\* and wraps in a build without
get_full_url(page, overflow_checks) ==
    IF page * PageSize > UsizeMax
    THEN IF overflow_checks THEN Panic
         ELSE Some(SearchPrefix \o Decimal((page * PageSize) % (UsizeMax + 1)))
    ELSE Some(SearchPrefix \o Decimal(page * PageSize))

----------------------------------------------------------------------------
(* intermediary::get_url and the loop body of intermediary::resolve *)

InScanClass(c) == is_ascii_alphanumeric(c) \/ c = "-" \/ c = "/" \/ c = "_"

RECURSIVE CountScanned(_)
\* the counter i of get_url: the characters before the first one outside
\* the scan class.  A character outside ASCII starts with a lead byte,
\* which is outside the class.
CountScanned(url) ==
    IF url = <<>> \/ ~InScanClass(Head(url)) THEN 0
    ELSE 1 + CountScanned(Tail(url))

\* &url[..i]
get_url(url) == SliceTo(url, CountScanned(url))

\* Vec::contains
Contains(rep, x) == \E k \in 1..Len(rep) : rep[k] = x

\* a loop body that pushes without looking the URL up in the list
PushInvite_NoDedup(rep, url) ==
    IF Len(url) = TokenLen THEN Append(rep, CanonicalPrefix \o url) ELSE rep

\* lines 127-134: a token of length 7 becomes a canonical URL, which is
\* pushed unless the list holds it already
PushInvite(rep, url) ==
    IF Len(url) = TokenLen
    THEN IF ~Contains(rep, CanonicalPrefix \o url)
         THEN Append(rep, CanonicalPrefix \o url)
         ELSE rep
    ELSE rep

----------------------------------------------------------------------------
(* Inputs. *)

RECURSIVE Concat(_, _)
\* the concatenations of at most n elements of S
Concat(S, n) ==
    IF n = 0 THEN {<<>>}
    ELSE LET prev == Concat(S, n - 1)
         IN  prev \cup {p \o s : p \in prev, s \in S}

Token7 == <<"A", "b", "3", "d", "E", "9", "f">>
ExamplePrefix == <<"h", "t", "t", "p", "s", ":", "/", "/", "e", "x", "a", "m", "p", "l", "e", ".", "c", "o", "m", "/", "i", "n", "v", "i", "t", "e", "/">>
UpperPrefix == <<"h", "t", "t", "p", "s", ":", "/", "/", "D", "i", "s", "c", "o", "r", "d", ".", "g", "g", "/">>
OtherCode == <<"o", "t", "h", "e", "r">>

TailChars == {<<"a">>, <<"-">>, EAcute}
FetchBases ==
    {<<>>, SubSeq(ShortPrefix, 1, ShortLen - 1), ShortPrefix, UpperPrefix,
     ShortPrefix \o Token7, SubSeq(CanonicalPrefix, 1, CanonicalLen - 1),
     CanonicalPrefix, ExamplePrefix}
FetchUrls == {b \o t : b \in FetchBases, t \in Concat(TailChars, MaxTail)}

\* the JSON documents the API may answer a request for invite_code with
JsonDocs(invite_code) ==
    [syntax : BOOLEAN,
     code : {<<>>, <<invite_code>>, <<OtherCode>>},
     guild : {<<>>, <<"guild">>},
     channel : {<<>>, <<"channel">>},
     inviter : {<<>>, <<"user">>},
     approximate_member_count : {<<>>, <<12>>},
     approximate_presence_count : {<<3>>}]
       \cup
    [syntax : {TRUE},
     code : {<<invite_code>>},
     guild : {<<>>},
     channel : {<<"channel">>},
     inviter : {<<>>},
     approximate_member_count : {<<12>>},
     approximate_presence_count : {<<>>}]

NoDoc ==
    [syntax |-> FALSE, code |-> <<>>, guild |-> <<>>, channel |-> <<>>,
     inviter |-> <<>>, approximate_member_count |-> <<>>,
     approximate_presence_count |-> <<>>]

NoResponse == [completed |-> FALSE, status |-> 0, utf8 |-> FALSE, doc |-> NoDoc]

\* what minreq's send() can come back with
FetchResponses(invite_code) ==
    {NoResponse} \cup
    [completed : {TRUE}, status : {200, 404}, utf8 : BOOLEAN,
     doc : JsonDocs(invite_code)]

Path7 == <<"a", "-", "b", "/", "c", "_", "d">>

\* page indices: the first ones and those around the largest product that
\* fits a usize
Pages ==
    (0..MaxPage) \cup
    {UsizeMax \div PageSize, UsizeMax \div PageSize + 1, UsizeMax}

SearchPages == {0, 1}

\* segments the body of a candidate page is assembled from
ResolveSegs == {Needle, Token7, Path7, <<"a">>, <<" ">>, EAcute}
ResolveBodies == Concat(ResolveSegs, MaxSegs)

\* segments the body of a search result page is assembled from
SearchSegs == {StartDelim, EndDelim, <<"x">>, <<"a">>}
SearchBodies == Concat(SearchSegs, MaxSegs)

NoPage == [completed |-> FALSE, utf8 |-> FALSE, text |-> <<>>]

\* what minreq's send() can come back with for a page of the given bodies
PageResponses(bodies) ==
    {NoPage} \cup
    {[completed |-> TRUE, utf8 |-> FALSE, text |-> <<>>]} \cup
    [completed : {TRUE}, utf8 : {TRUE}, text : bodies]

----------------------------------------------------------------------------
(* Invite::fetch *)

FIdle ==
    /\ f_pc = "idle" /\ f_url = <<>> /\ f_code = NoValue /\ f_requests = 0
    /\ f_req_url = <<>> /\ f_resp = NoResponse /\ f_decoded = FALSE
    /\ f_result = NoValue

FetchInit ==
    /\ f_pc = "start" /\ f_url \in FetchUrls /\ f_code = NoValue
    /\ f_requests = 0 /\ f_req_url = <<>> /\ f_resp = NoResponse
    /\ f_decoded = FALSE /\ f_result = NoValue

\* lines 217-220: the code is extracted; the call ends here when there is
\* none, and unwinds when get_invite_code panics
FetchExtract ==
    /\ f_pc = "start"
    /\ f_code' = get_invite_code(f_url)
    /\ f_pc' = CASE f_code'.tag = "Some" -> "send"
                 [] f_code'.tag = "None" -> "done"
                 [] OTHER -> "panic"
    /\ f_result' = IF f_code'.tag = "None" THEN Err("InvalidResponse") ELSE f_result
    /\ UNCHANGED <<f_url, f_requests, f_req_url, f_resp, f_decoded>>
    /\ UNCHANGED <<url_vars, g_vars, r_vars>>

\* lines 221-255: one request, and the result read off its response
FetchSend ==
    /\ f_pc = "send"
    /\ f_req_url' = ApiUrl(f_code.v)
    /\ f_requests' = f_requests + 1
    /\ \E resp \in FetchResponses(f_code.v) :
          /\ f_resp' = resp
          /\ f_result' = FetchOutcome(resp).result
          /\ f_decoded' = FetchOutcome(resp).decoded
    /\ f_pc' = "done"
    /\ UNCHANGED <<f_url, f_code>>
    /\ UNCHANGED <<url_vars, g_vars, r_vars>>

FetchNext == FetchExtract \/ FetchSend

----------------------------------------------------------------------------
(* google::get_full_url *)

UrlInit ==
    /\ url_pc = "start" /\ url_page \in Pages /\ url_checks \in BOOLEAN
    /\ url_out = NoValue

UrlCall ==
    /\ url_pc = "start"
    /\ url_out' = get_full_url(url_page, url_checks)
    /\ url_pc' = IF url_out'.tag = "Panic" THEN "panic" ELSE "done"
    /\ UNCHANGED <<url_page, url_checks>>
    /\ UNCHANGED <<g_vars, r_vars, f_vars>>

UrlNext == UrlCall

----------------------------------------------------------------------------
(* google::search *)

SearchInit ==
    /\ g_pc = "start" /\ g_page \in SearchPages /\ g_req_url = <<>>
    /\ g_body0 = <<>> /\ g_body = <<>> /\ g_rep = <<>> /\ g_result = NoValue

\* lines 54-64 and 72-77: the request, and the two failures
SearchSend ==
    /\ g_pc = "start"
    /\ g_req_url' = get_full_url(g_page, TRUE).v
    /\ \E resp \in PageResponses(SearchBodies) :
          /\ g_body0' = resp.text
          /\ g_body' = resp.text
          /\ g_pc' = IF resp.completed /\ resp.utf8 THEN "scan" ELSE "done"
          /\ g_result' = IF ~resp.completed THEN Err("Timeout")
                         ELSE IF ~resp.utf8 THEN Err("InvalidResponse")
                         ELSE g_result
    /\ UNCHANGED <<g_page, g_rep>>
    /\ UNCHANGED <<url_vars, r_vars, f_vars>>

\* the value matched by `while let Some(url)` at lines 65-66
NextLink(body) == get_all_between_strict(body, StartDelim, EndDelim)

\* lines 65-70: one iteration of the loop
SearchCapture ==
    /\ g_pc = "scan"
    /\ NextLink(g_body).tag = "Some"
    /\ Len(g_rep) < MaxRep
    /\ g_rep' = Append(g_rep, NextLink(g_body).v)
    /\ g_body' = get_all_after(g_body, NextLink(g_body).v)
    /\ UNCHANGED <<g_pc, g_page, g_req_url, g_body0, g_result>>
    /\ UNCHANGED <<url_vars, r_vars, f_vars>>

\* lines 65 and 71: the loop ends and the list is returned
SearchReturn ==
    /\ g_pc = "scan"
    /\ NextLink(g_body).tag = "None"
    /\ g_result' = Ok(g_rep)
    /\ g_pc' = "done"
    /\ UNCHANGED <<g_page, g_req_url, g_body0, g_body, g_rep>>
    /\ UNCHANGED <<url_vars, r_vars, f_vars>>

SearchNext == SearchSend \/ SearchCapture \/ SearchReturn

----------------------------------------------------------------------------
(* intermediary::resolve *)

ResolveInit ==
    /\ r_pc = "start" /\ r_body0 = <<>> /\ r_body = <<>> /\ r_rep = <<>>
    /\ r_result = NoValue

\* lines 113-122 and 137-142: the request, and the two failures
ResolveSend ==
    /\ r_pc = "start"
    /\ \E resp \in PageResponses(ResolveBodies) :
          /\ r_body0' = resp.text
          /\ r_body' = resp.text
          /\ r_pc' = IF resp.completed /\ resp.utf8 THEN "scan" ELSE "done"
          /\ r_result' = IF ~resp.completed THEN Err("Timeout")
                         ELSE IF ~resp.utf8 THEN Err("InvalidResponse")
                         ELSE r_result
    /\ UNCHANGED r_rep
    /\ UNCHANGED <<url_vars, g_vars, f_vars>>

\* lines 124-135: one iteration of the loop
ResolveIter ==
    /\ r_pc = "scan"
    /\ get_all_after(r_body, Needle) # <<>>
    /\ LET url == get_url(get_all_after(r_body, Needle))
       IN  /\ r_body' = get_all_after(r_body, Needle)
           /\ r_pc' = IF url.tag = "Panic" THEN "panic" ELSE r_pc
           /\ r_rep' = IF url.tag = "Panic" THEN r_rep ELSE PushInvite(r_rep, url.v)
    /\ UNCHANGED <<r_body0, r_result>>
    /\ UNCHANGED <<url_vars, g_vars, f_vars>>

\* lines 124 and 136: the loop ends and the list is returned
ResolveReturn ==
    /\ r_pc = "scan"
    /\ get_all_after(r_body, Needle) = <<>>
    /\ r_result' = Ok(r_rep)
    /\ r_pc' = "done"
    /\ UNCHANGED <<r_body0, r_body, r_rep>>
    /\ UNCHANGED <<url_vars, g_vars, f_vars>>

ResolveNext == ResolveSend \/ ResolveIter \/ ResolveReturn

----------------------------------------------------------------------------
(* Idle states of the calls a specification does not exercise. *)

UrlIdle ==
    /\ url_pc = "idle" /\ url_page = 0 /\ url_checks = FALSE /\ url_out = NoValue

GIdle ==
    /\ g_pc = "idle" /\ g_page = 0 /\ g_req_url = <<>> /\ g_body0 = <<>> /\ g_body = <<>>
    /\ g_rep = <<>> /\ g_result = NoValue

RIdle ==
    /\ r_pc = "idle" /\ r_body0 = <<>> /\ r_body = <<>> /\ r_rep = <<>>
    /\ r_result = NoValue

----------------------------------------------------------------------------
(* Specifications. *)

\* one call of google::get_full_url
InitUrl == UrlInit /\ GIdle /\ RIdle /\ FIdle
SpecUrl == InitUrl /\ [][UrlNext]_vars

\* one call of google::search
InitSearch == SearchInit /\ UrlIdle /\ RIdle /\ FIdle
SpecSearch == InitSearch /\ [][SearchNext]_vars

\* one call of intermediary::resolve
InitResolve == ResolveInit /\ UrlIdle /\ GIdle /\ FIdle
SpecResolve == InitResolve /\ [][ResolveNext]_vars

\* one call of Invite::fetch
InitFetch == FetchInit /\ UrlIdle /\ GIdle /\ RIdle
SpecFetch == InitFetch /\ [][FetchNext]_vars

----------------------------------------------------------------------------
(* Properties of Invite::fetch and get_invite_code. *)

\* str::starts_with, on bytes
StartsWith(u, prefix) ==
    Len(u) >= Len(prefix) /\ SubSeq(u, 1, Len(prefix)) = prefix

Remainder(u, prefix) == SubSeq(u, Len(prefix) + 1, Len(u))

FetchReturned == f_pc = "done"
FetchEnded == f_pc \in {"done", "panic"}

\* C2: for a recognized invite URL the outcome of Invite::fetch is fixed by
\* the transport result: Timeout exactly when the request did not complete;
\* InvalidResponse for a status other than 200 (the body is then not
\* decoded), for an unreadable body, and for a text that fails decoding;
\* otherwise the decoded record, unchanged.
C2_OutcomeByTransport ==
    (FetchReturned /\ f_code.tag = "Some") =>
        /\ (f_result = Err("Timeout")) <=> ~f_resp.completed
        /\ (f_resp.completed /\ f_resp.status # 200) =>
               (f_result = Err("InvalidResponse") /\ ~f_decoded)
        /\ (f_resp.completed /\ f_resp.status = 200 /\ ~f_resp.utf8) =>
               f_result = Err("InvalidResponse")
        /\ (f_resp.completed /\ f_resp.status = 200 /\ f_resp.utf8
              /\ from_str(f_resp.doc).tag = "Err") =>
               f_result = Err("InvalidResponse")
        /\ (f_resp.completed /\ f_resp.status = 200 /\ f_resp.utf8
              /\ from_str(f_resp.doc).tag = "Ok") =>
               f_result = from_str(f_resp.doc)
        /\ \/ f_result.tag = "Ok"
           \/ f_result \in {Err("Timeout"), Err("InvalidResponse")}

\* a recognized URL was answered with status 404 and a decodable body
C2_Witness ==
    /\ FetchReturned /\ f_code.tag = "Some"
    /\ f_resp.completed /\ f_resp.status = 404 /\ f_resp.utf8
    /\ from_str(f_resp.doc).tag = "Ok"
    /\ f_result = Err("InvalidResponse")

\* C3: one call of Invite::fetch issues no request when get_invite_code
\* recognizes no token, and then fails with InvalidResponse; it issues
\* exactly one request otherwise; no request precedes the recognition.
C3_RequestCount ==
    /\ f_requests > 0 => f_code.tag = "Some"
    /\ f_requests <= 1
    /\ FetchEnded =>
          IF f_code.tag = "Some"
          THEN f_requests = 1
          ELSE f_requests = 0 /\ f_result = Err("InvalidResponse")

\* C4: get_invite_code never panics, and Invite::fetch on a URL with
\* neither prefix returns InvalidResponse.
C4_NoAbort ==
    /\ f_pc # "panic"
    /\ f_code.tag # "Panic"
    /\ (FetchEnded /\ ~StartsWith(f_url, CanonicalPrefix)
          /\ ~StartsWith(f_url, ShortPrefix)) =>
           f_result = Err("InvalidResponse")

\* C5: get_invite_code(u) is the whole remainder of u after the prefix when
\* u begins with one of the two prefixes, and nothing otherwise.
C5_Remainder ==
    f_pc # "start" =>
        f_code = IF StartsWith(f_url, CanonicalPrefix)
                     THEN Some(Remainder(f_url, CanonicalPrefix))
                 ELSE IF StartsWith(f_url, ShortPrefix)
                     THEN Some(Remainder(f_url, ShortPrefix))
                 ELSE None

\* C8 as stated: whenever Invite::fetch(u) succeeds for a canonical u,
\* get_url of the returned record is u.
C8_LeftInverse ==
    (FetchReturned /\ StartsWith(f_url, CanonicalPrefix) /\ f_result.tag = "Ok") =>
        Invite_get_url(f_result.v) = f_url

\* C8, amended: get_url of the returned record is the canonical prefix
\* followed by the code member of the response body; it equals u when that
\* member is the token of u.
C8_LeftInverseOnEcho ==
    (FetchReturned /\ StartsWith(f_url, CanonicalPrefix) /\ f_result.tag = "Ok") =>
        /\ Invite_get_url(f_result.v) = CanonicalPrefix \o f_resp.doc.code[1]
        /\ f_resp.doc.code = <<Remainder(f_url, CanonicalPrefix)>> =>
               Invite_get_url(f_result.v) = f_url

\* a canonical URL was resolved from a body that carries its token
C8_Witness ==
    /\ FetchReturned /\ StartsWith(f_url, CanonicalPrefix) /\ f_result.tag = "Ok"
    /\ f_resp.doc.code = <<Remainder(f_url, CanonicalPrefix)>>
    /\ Invite_get_url(f_result.v) = f_url

----------------------------------------------------------------------------
(* Properties of intermediary::resolve. *)

\* the length of the longest run of scan-class bytes that starts at byte
\* offset from
RunLen(body, from) ==
    CHOOSE n \in 0..(Len(body) - from) :
        /\ \A k \in 1..n : InScanClass(body[from + k])
        /\ n = Len(body) - from \/ ~InScanClass(body[from + n + 1])

RECURSIVE RefInvitesFrom(_, _, _)
\* the reference list: every occurrence of the needle at an offset >= i,
\* left to right, contributes its run when the run has length 7 and its
\* canonical URL is not in the list yet
RefInvitesFrom(body, i, acc) ==
    IF i > Len(body) THEN acc
    ELSE IF ~Occurs(body, Needle, i) THEN RefInvitesFrom(body, i + 1, acc)
    ELSE LET from == i + Len(Needle)
             n == RunLen(body, from)
             u == CanonicalPrefix \o SubSeq(body, from + 1, from + n)
         IN  IF n = 7 /\ \A k \in 1..Len(acc) : acc[k] # u
             THEN RefInvitesFrom(body, i + 1, Append(acc, u))
             ELSE RefInvitesFrom(body, i + 1, acc)

RefInvites(body) == RefInvitesFrom(body, 0, <<>>)

NeedleOffsets(body) == {i \in 0..Len(body) : Occurs(body, Needle, i)}

\* C1: the list returned by the token-extraction loop is the reference
\* list: one canonical URL per run of length exactly 7 that follows an
\* occurrence of `discord.gg/`, in order of first appearance, without
\* duplicates, and empty when there is no occurrence.
C1_ExtractionMatchesReference ==
    (r_pc = "done" /\ r_result.tag = "Ok") =>
        /\ r_result.v = RefInvites(r_body0)
        /\ NeedleOffsets(r_body0) = {} => r_result.v = <<>>
        /\ \A j, k \in 1..Len(r_result.v) :
               r_result.v[j] = r_result.v[k] => j = k

\* a body with three occurrences gave two URLs: one token was met twice
C1_Witness ==
    /\ r_pc = "done" /\ r_result.tag = "Ok"
    /\ Len(r_result.v) = 2
    /\ Cardinality({i \in NeedleOffsets(r_body0) :
                       RunLen(r_body0, i + Len(Needle)) = 7}) = 3

\* C6: every returned URL is the canonical prefix followed by a token of
\* ASCII alphanumeric, hyphen and underscore characters only.
C6_TokenAlphabet ==
    (r_pc = "done" /\ r_result.tag = "Ok") =>
        \A k \in 1..Len(r_result.v) :
            /\ StartsWith(r_result.v[k], CanonicalPrefix)
            /\ \A c \in 1..Len(Remainder(r_result.v[k], CanonicalPrefix)) :
                   LET ch == Remainder(r_result.v[k], CanonicalPrefix)[c]
                   IN  is_ascii_alphanumeric(ch) \/ ch = "-" \/ ch = "_"

----------------------------------------------------------------------------
(* Properties of google::get_full_url. *)

\* C7: for every page index p of the argument's type the URL is the fixed
\* query followed by the decimal number p * 10, without wrap-around or
\* abort.
C7_StartOffset ==
    url_pc # "start" =>
        /\ url_pc = "done"
        /\ url_out = Some(SearchPrefix \o Decimal(url_page * 10))

----------------------------------------------------------------------------
(* Properties of google::search. *)

\* the byte offset in the response body at which the scan stands
ScanPos == Len(g_body0) - Len(g_body)

RECURSIVE RefLinksFrom(_, _, _)
\* the reference list: from offset p, the text between the next start
\* delimiter and the end delimiter that follows it is captured, and the
\* scan resumes at the offset where that text ends
RefLinksFrom(body, p, acc) ==
    LET rest == SubSeq(body, p + 1, Len(body))
        s == find(rest, StartDelim)
        from == p + s + Len(StartDelim)
        e == find(SubSeq(body, from + 1, Len(body)), EndDelim)
    IN  IF s < 0 THEN acc
        ELSE IF e < 0 THEN acc
        ELSE RefLinksFrom(body, from + e,
                          Append(acc, SubSeq(body, from + 1, from + e)))

RefLinks(body) == RefLinksFrom(body, 0, <<>>)

\* C9: every iteration of the delimiter-scan loop strictly shortens the
\* text that remains to be scanned, so the loop terminates for every body,
\* also when a captured text is empty.
C9_EachIterationShortens ==
    [][(g_pc = "scan" /\ g_pc' = "scan") => Len(g_body') < Len(g_body)]_vars

\* C10: the scan resumes right after the captured text where it was
\* captured, so the returned list holds one entry per start delimiter that
\* has a following end delimiter and lies outside a captured text, in order.
C10_OneEntryPerLink ==
    (g_pc = "done" /\ g_result.tag = "Ok") => g_result.v = RefLinks(g_body0)

====
